---- MODULE Spec2Model ----
(***************************************************************************)
(* Model of CoreAuth (packages/core/src/core.ts): the credential cache,    *)
(* the single-flight refresh handle, the issuer exchange and the retrying  *)
(* request executor, under JavaScript's cooperative scheduling: a step of  *)
(* the model is one synchronous run of code between two await points.      *)
(***************************************************************************)
EXTENDS Integers, Sequences, FiniteSets, TLC

(* ------------------------------ bounds -------------------------------- *)
\* Number of concurrent callers of one CoreAuth instance.
NProcs == 2
\* Callers 1..NReq may call makeAuthenticatedRequest; all may call getToken.
NReq == 1
\* Issuer exchanges started in one behaviour.
MaxExchanges == 3
\* Largest value of options.retries a caller passes.
MaxRetries == 2
MaxTicks == 4

(* ------------------------- program constants -------------------------- *)
bufferTime == 60 * 1000
DefaultTokenCacheTtl == 55 * 60 * 1000
DefaultMaxRetries == 3
DefaultRetryDelay == 1000
DefaultExpiresIn == 3600
\* The resolution of Date.now(), in ms.
ClockStep == 1

Procs == 1..NProcs
Requesters == 1..NReq

Min(a, b) == IF a <= b THEN a ELSE b

RECURSIVE Pow2(_)
Pow2(n) == IF n <= 0 THEN 1 ELSE 2 * Pow2(n - 1)

(* ------------------------------ errors -------------------------------- *)
\* An error value: its class, its code, its statusCode and, for a
\* RateLimitError, details.retryAfter (0 when absent).
Err(cls, code, status, retryAfter) ==
    [cls |-> cls, code |-> code, status |-> status, retryAfter |-> retryAfter]

NoError == Err("none", "none", 0, 0)

HttpCode(status) == "HTTP_" \o ToString(status)

AuthenticationError(code, status) == Err("AuthenticationError", code, status, 0)
TokenExpiredError == Err("TokenExpiredError", "TOKEN_EXPIRED", 401, 0)
InvalidCredentialsError == Err("InvalidCredentialsError", "INVALID_CREDENTIALS", 401, 0)
NetworkError == Err("NetworkError", "NETWORK_ERROR", 0, 0)
RateLimitError(retryAfter) == Err("RateLimitError", "RATE_LIMIT_EXCEEDED", 429, retryAfter)
ConfigurationError == Err("ConfigurationError", "CONFIGURATION_ERROR", 0, 0)
\* What fetch() itself throws (a TypeError or an AbortError): no class of the SDK.
TransportError == Err("TypeError", "none", 0, 0)
\* What response.json() throws on a malformed body.
SyntaxError == Err("SyntaxError", "none", 0, 0)

\* error instanceof AuthenticationError: the class and its five subclasses.
IsAuthenticationError(e) ==
    e.cls \in {"AuthenticationError", "TokenExpiredError", "InvalidCredentialsError",
               "NetworkError", "RateLimitError", "ConfigurationError"}

(* ------------------------- credential store --------------------------- *)
NULL == [null |-> TRUE]

\* A number that may be NaN is modelled by NaN == -1 where only non-negative
\* values occur otherwise.
NaN == 0 - 1

\* cacheToken that ignores the configured cache lifetime.
cacheTokenNoTtl(token, cfg, t) ==
    [token |-> token, cachedAt |-> t, expiresAt |-> t + token.expires_in * 1000]

\* isTokenValid without the safety buffer.
isTokenValidNoBuffer(ct, t) ==
    IF ct = NULL THEN FALSE ELSE t < ct.expiresAt

isTokenValid(ct, t) ==
    IF ct = NULL THEN FALSE ELSE t < ct.expiresAt - bufferTime

createJWTToken(access_token, token_type, expires_in, t) ==
    [access_token |-> access_token, token_type |-> token_type,
     expires_in |-> expires_in, expires_at |-> t + expires_in * 1000]

cacheToken(token, cfg, t) ==
    [token |-> token, cachedAt |-> t,
     expiresAt |-> t + Min(cfg.tokenCacheTtl, token.expires_in * 1000)]

\* x || null for a number x.
OrNull(x) == IF x = 0 THEN NULL ELSE x

getTokenInfo(ct, t) ==
    [isValid |-> isTokenValid(ct, t),
     expiresAt |-> IF ct = NULL THEN NULL ELSE OrNull(ct.expiresAt),
     cachedAt |-> IF ct = NULL THEN NULL ELSE OrNull(ct.cachedAt)]

(* --------------------------- configuration ---------------------------- *)
\* The value of a configuration field is modelled by a string: Undefined for
\* a field that is absent, NotAString for a value of another type (a non-zero
\* number), and every other string for itself.
Undefined == "<undefined>"
NotAString == "<number>"

\* !v
Not(v) == v \in {Undefined, ""}

\* typeof v
TypeOf(v) ==
    IF v = Undefined THEN "undefined" ELSE IF v = NotAString THEN "number" ELSE "string"

\* validateConfig that does not look at secretKey.
validateConfigClientIdOnly(cfg) ==
    IF Not(cfg.clientId) \/ TypeOf(cfg.clientId) # "string"
      THEN ConfigurationError
    ELSE NoError

\* validateConfig: the error it throws, NoError when it returns.
validateConfig(cfg) ==
    IF Not(cfg.clientId) \/ TypeOf(cfg.clientId) # "string"
      THEN ConfigurationError
    ELSE IF Not(cfg.secretKey) \/ TypeOf(cfg.secretKey) # "string"
      THEN ConfigurationError
    ELSE NoError

(* --------------------------- issuer client ---------------------------- *)
\* What the issuer endpoint can answer to exchange number e.  throws: the
\* fetch itself fails; ok: response.ok; error: the body's error text ("" when
\* absent); token: the body's token (0 when absent; the issuer hands out a
\* fresh token per exchange); expires_in: 0 when absent.
IssuerResponse(throws, ok, status, error, token, expires_in) ==
    [throws |-> throws, ok |-> ok, status |-> status, error |-> error,
     token |-> token, expires_in |-> expires_in,
     token_type |-> ""]

IssuerResponses(e) ==
    { IssuerResponse(TRUE, FALSE, 0, "", 0, 0),
      IssuerResponse(FALSE, FALSE, 500, "", 0, 0),
      IssuerResponse(FALSE, TRUE, 200, "Invalid credentials", 0, 0),
      IssuerResponse(FALSE, TRUE, 200, "", e, 0),
      IssuerResponse(FALSE, TRUE, 200, "", e, 60) }

\* The answers with the lifetimes told apart once time passes: none declared,
\* the safety buffer, and twice the safety buffer.
TimedIssuerResponses(e) ==
    { IssuerResponse(FALSE, FALSE, 500, "", 0, 0),
      IssuerResponse(FALSE, TRUE, 200, "", e, 0),
      IssuerResponse(FALSE, TRUE, 200, "", e, 60),
      IssuerResponse(FALSE, TRUE, 200, "", e, 120) }

\* No answer yet.
NoIssuerResponse == IssuerResponse(FALSE, FALSE, 0, "", 0, 0)

\* The answers fetchNewToken tells apart: a failed fetch, error statuses with
\* and without an error text or a token in the body, a 2xx with each kind of
\* error text (alone or beside a token), a 2xx without token, a 2xx with one.
ClassifiedIssuerResponses(e) ==
    { IssuerResponse(TRUE, FALSE, 0, "", 0, 0),
      IssuerResponse(FALSE, FALSE, 500, "", 0, 0),
      IssuerResponse(FALSE, FALSE, 401, "Invalid credentials", 0, 0),
      IssuerResponse(FALSE, FALSE, 404, "", e, 0),
      IssuerResponse(FALSE, TRUE, 200, "Invalid credentials", 0, 0),
      IssuerResponse(FALSE, TRUE, 200, "Credential is INVALID", e, 0),
      IssuerResponse(FALSE, TRUE, 200, "Function Not Found", 0, 0),
      IssuerResponse(FALSE, TRUE, 200, "client not found: invalid credentials", 0, 0),
      IssuerResponse(FALSE, TRUE, 200, "boom", 0, 0),
      IssuerResponse(FALSE, TRUE, 200, "boom", e, 0),
      IssuerResponse(FALSE, TRUE, 200, "", 0, 0),
      IssuerResponse(FALSE, TRUE, 200, "", e, 0) }

\* errorMessage.toLowerCase().includes(...) on the error texts above.
IncludesInvalidCredential(msg) ==
    msg \in {"Invalid credentials", "Credential is INVALID",
             "client not found: invalid credentials"}
IncludesNotFound(msg) ==
    msg \in {"function not found", "Function Not Found",
             "client not found: invalid credentials"}

handleSupabaseError(msg) ==
    IF IncludesInvalidCredential(msg) THEN InvalidCredentialsError
    ELSE IF IncludesNotFound(msg) THEN AuthenticationError("FUNCTION_NOT_FOUND", 404)
    ELSE AuthenticationError("EDGE_FUNCTION_ERROR", 0)

\* data.token_type || 'Bearer'
OrBearer(token_type) == IF token_type = "" THEN "Bearer" ELSE token_type

\* fetchNewToken that looks at the error text of the body before the status.
fetchNewTokenBodyFirst(resp, t) ==
    IF resp.throws THEN [ok |-> FALSE, error |-> NetworkError, token |-> NULL]
    ELSE IF resp.error # ""
      THEN [ok |-> FALSE, error |-> handleSupabaseError(resp.error), token |-> NULL]
    ELSE IF ~resp.ok
      THEN [ok |-> FALSE, error |-> AuthenticationError(HttpCode(resp.status), resp.status),
            token |-> NULL]
    ELSE IF resp.token = 0
      THEN [ok |-> FALSE, error |-> AuthenticationError("NO_TOKEN_RESPONSE", 0),
            token |-> NULL]
    ELSE [ok |-> TRUE, error |-> NoError,
          token |-> createJWTToken(resp.token, OrBearer(resp.token_type),
                       IF resp.expires_in = 0 THEN DefaultExpiresIn ELSE resp.expires_in,
                       t)]

\* The outcome of fetchNewToken on an issuer response received at time t:
\* a token to cache, or the error it throws.
fetchNewToken(resp, t) ==
    IF resp.throws THEN [ok |-> FALSE, error |-> NetworkError, token |-> NULL]
    ELSE IF ~resp.ok
      THEN [ok |-> FALSE, error |-> AuthenticationError(HttpCode(resp.status), resp.status),
            token |-> NULL]
    ELSE IF resp.error # ""
      THEN [ok |-> FALSE, error |-> handleSupabaseError(resp.error), token |-> NULL]
    ELSE IF resp.token = 0
      THEN [ok |-> FALSE, error |-> AuthenticationError("NO_TOKEN_RESPONSE", 0),
            token |-> NULL]
    ELSE [ok |-> TRUE, error |-> NoError,
          token |-> createJWTToken(resp.token, OrBearer(resp.token_type),
                       IF resp.expires_in = 0 THEN DefaultExpiresIn ELSE resp.expires_in,
                       t)]

(* -------------------------- business endpoint ------------------------- *)
\* What the business endpoint can answer.  throws: the fetch itself fails
\* (timeout, DNS, reset); bodyOk: the read of the body that handleResponse
\* performs succeeds (response.json() of a 2xx, response.text() of an error
\* status; a 401 or 429 body is not read); retryAfter: the Retry-After header
\* ("" when absent).
BusinessResponse(throws, status, bodyOk, retryAfter) ==
    [throws |-> throws, status |-> status, bodyOk |-> bodyOk, retryAfter |-> retryAfter]

BusinessResponses ==
    { BusinessResponse(TRUE, 0, FALSE, ""),
      BusinessResponse(FALSE, 200, TRUE, ""),
      BusinessResponse(FALSE, 200, FALSE, ""),
      BusinessResponse(FALSE, 401, TRUE, ""),
      BusinessResponse(FALSE, 429, TRUE, "1"),
      BusinessResponse(FALSE, 429, TRUE, ""),
      BusinessResponse(FALSE, 500, TRUE, ""),
      BusinessResponse(FALSE, 500, FALSE, "") }

\* No response received yet for the request in flight.
NoResponse == BusinessResponse(FALSE, 0, FALSE, "")

\* parseInt(s, 10) on the header texts that occur.
ParseInt(s) ==
    CASE s = "0" -> 0
      [] s = "1" -> 1
      [] s = "2" -> 2
      [] s = "60" -> 60
      [] OTHER -> NaN

TimesThousand(n) == IF n = NaN THEN NaN ELSE n * 1000

\* The ApiResponse handleResponse returns (error.toAuthError() gives the code).
ApiResult(success, code, status) == [success |-> success, code |-> code, status |-> status]
NoResult == ApiResult(FALSE, "none", 0)

\* handleResponse's try block without the clearing of the cached token on 401.
handleResponseTryNoClear(resp) ==
    IF resp.status = 401
      THEN [threw |-> TRUE, error |-> TokenExpiredError, clear |-> FALSE]
    ELSE IF resp.status = 429
      THEN [threw |-> TRUE,
            error |-> RateLimitError(TimesThousand(ParseInt(
                         IF resp.retryAfter = "" THEN "60" ELSE resp.retryAfter))),
            clear |-> FALSE]
    ELSE IF resp.status >= 400
      THEN [threw |-> TRUE,
            error |-> IF resp.bodyOk
                        THEN AuthenticationError(HttpCode(resp.status), resp.status)
                        ELSE SyntaxError,
            clear |-> FALSE]
    ELSE IF ~resp.bodyOk
      THEN [threw |-> TRUE, error |-> SyntaxError, clear |-> FALSE]
    ELSE [threw |-> FALSE, error |-> NoError, clear |-> FALSE]

\* The try block that clears the cached token on every error status.
handleResponseTryClearsAny(resp) ==
    IF resp.status = 401
      THEN [threw |-> TRUE, error |-> TokenExpiredError, clear |-> TRUE]
    ELSE IF resp.status = 429
      THEN [threw |-> TRUE,
            error |-> RateLimitError(TimesThousand(ParseInt(
                         IF resp.retryAfter = "" THEN "60" ELSE resp.retryAfter))),
            clear |-> TRUE]
    ELSE IF resp.status >= 400
      THEN [threw |-> TRUE,
            error |-> IF resp.bodyOk
                        THEN AuthenticationError(HttpCode(resp.status), resp.status)
                        ELSE SyntaxError,
            clear |-> TRUE]
    ELSE IF ~resp.bodyOk
      THEN [threw |-> TRUE, error |-> SyntaxError, clear |-> FALSE]
    ELSE [threw |-> FALSE, error |-> NoError, clear |-> FALSE]

\* The try block where the parse of a successful body always fails.
handleResponseTryBodyFails(resp) ==
    IF resp.status = 401
      THEN [threw |-> TRUE, error |-> TokenExpiredError, clear |-> TRUE]
    ELSE IF resp.status = 429
      THEN [threw |-> TRUE,
            error |-> RateLimitError(TimesThousand(ParseInt(
                         IF resp.retryAfter = "" THEN "60" ELSE resp.retryAfter))),
            clear |-> FALSE]
    ELSE IF resp.status >= 400
      THEN [threw |-> TRUE,
            error |-> IF resp.bodyOk
                        THEN AuthenticationError(HttpCode(resp.status), resp.status)
                        ELSE SyntaxError,
            clear |-> FALSE]
    ELSE [threw |-> TRUE, error |-> SyntaxError, clear |-> FALSE]

\* The try block where every error status is reported under one code.
handleResponseTryOneCode(resp) ==
    IF resp.status = 401
      THEN [threw |-> TRUE, error |-> TokenExpiredError, clear |-> TRUE]
    ELSE IF resp.status = 429
      THEN [threw |-> TRUE,
            error |-> RateLimitError(TimesThousand(ParseInt(
                         IF resp.retryAfter = "" THEN "60" ELSE resp.retryAfter))),
            clear |-> FALSE]
    ELSE IF resp.status >= 400
      THEN [threw |-> TRUE,
            error |-> IF resp.bodyOk
                        THEN AuthenticationError("HTTP_ERROR", resp.status)
                        ELSE SyntaxError,
            clear |-> FALSE]
    ELSE IF ~resp.bodyOk
      THEN [threw |-> TRUE, error |-> SyntaxError, clear |-> FALSE]
    ELSE [threw |-> FALSE, error |-> NoError, clear |-> FALSE]

\* The try block of handleResponse: what it throws, or nothing when it reaches
\* the return; clear: it has cleared the cached token on its way.
handleResponseTry(resp) ==
    IF resp.status = 401
      THEN [threw |-> TRUE, error |-> TokenExpiredError, clear |-> TRUE]
    ELSE IF resp.status = 429
      THEN [threw |-> TRUE,
            error |-> RateLimitError(TimesThousand(ParseInt(
                         IF resp.retryAfter = "" THEN "60" ELSE resp.retryAfter))),
            clear |-> FALSE]
    ELSE IF resp.status >= 400
      THEN [threw |-> TRUE,
            error |-> IF resp.bodyOk
                        THEN AuthenticationError(HttpCode(resp.status), resp.status)
                        ELSE SyntaxError,
            clear |-> FALSE]
    ELSE IF ~resp.bodyOk
      THEN [threw |-> TRUE, error |-> SyntaxError, clear |-> FALSE]
    ELSE [threw |-> FALSE, error |-> NoError, clear |-> FALSE]

\* handleResponse whose catch rethrows every error of the try block.
handleResponseRethrows(resp) ==
    LET t == handleResponseTry(resp) IN
    IF ~t.threw
      THEN [returns |-> TRUE, result |-> ApiResult(TRUE, "none", resp.status),
            error |-> NoError, clear |-> t.clear]
    ELSE [returns |-> FALSE, result |-> NoResult, error |-> t.error, clear |-> t.clear]

\* handleResponse: the try block, then its catch, which turns every
\* AuthenticationError (subclasses included) into a returned failure.
handleResponse(resp) ==
    LET t == handleResponseTry(resp) IN
    IF ~t.threw
      THEN [returns |-> TRUE, result |-> ApiResult(TRUE, "none", resp.status),
            error |-> NoError, clear |-> t.clear]
    ELSE IF IsAuthenticationError(t.error)
      THEN [returns |-> TRUE, result |-> ApiResult(FALSE, t.error.code, resp.status),
            error |-> NoError, clear |-> t.clear]
    ELSE [returns |-> FALSE, result |-> NoResult, error |-> NetworkError, clear |-> t.clear]

(* ------------------------------- state -------------------------------- *)
VARIABLES
    config,          \* this.config
    cachedToken,     \* this.cachedToken: NULL or a CachedToken
    refreshPromise,  \* this.refreshPromise: 0 (null) or the exchange it refers to
    exchanges,       \* the promises fetchNewToken has returned, in order of creation
    now,             \* Date.now()
    procs            \* the callers: where each stands and what it has seen

vars == <<config, cachedToken, refreshPromise, exchanges, now, procs>>

\* A caller.  kind: the public method it called; pc: the await it is
\* suspended at; role/ex: how its current getToken call got its token and
\* from which exchange; resp: the answer to its latest business request; the
\* arg: the argument of a constructor call; info: what a getTokenInfo call
\* returned; the rest is the call's local state and its record.
\* Header sets are functions from header names to values; { ...a, ...b }.
NoHeaders == [k \in {} |-> ""]
Spread(a, b) ==
    [k \in DOMAIN a \cup DOMAIN b |-> IF k \in DOMAIN b THEN b[k] ELSE a[k]]

IdleProc ==
    [kind |-> "none", pc |-> "idle", force |-> FALSE, role |-> "none", ex |-> 0,
     token |-> 0, attempt |-> 0, retries |-> 0, lastError |-> NoError,
     sleepMs |-> 0, outcome |-> "pending", result |-> NoResult, resp |-> NoResponse,
     nGetToken |-> 0, arg |-> NULL, info |-> NULL,
     nBusiness |-> 0, nSleeps |-> 0, allRetryable |-> TRUE,
     headers |-> NoHeaders, sent |-> NoHeaders]

\* The fields of the instance a synchronous run reads and writes; capped: the
\* run would start an exchange beyond MaxExchanges.
Fields(rp, ct, exs) == [rp |-> rp, ct |-> ct, exs |-> exs, capped |-> FALSE]
Out(pr, S) == [pr |-> pr, S |-> S]

Pending(e) == exchanges[e].state = "pending"
InFlight == {e \in 1..Len(exchanges) : Pending(e)}

\* The business classifications the executor is documented to retry.
RetryableError(err) ==
    err.cls \in {"NetworkError", "TypeError", "TokenExpiredError", "RateLimitError"}

(* ------------------------------ getToken ------------------------------ *)
\* The call returns or throws to its caller.
Returned(pr, tok) == [pr EXCEPT !.pc = "done", !.outcome = "returned", !.token = tok]
Thrown(pr, err) == [pr EXCEPT !.pc = "done", !.outcome = "thrown", !.lastError = err]

\* makeAuthenticatedRequest after getToken resolved: it sends the request.
sendRequest(pr, tok) ==
    [pr EXCEPT !.pc = "fetch", !.token = tok, !.nBusiness = @ + 1, !.resp = NoResponse,
               !.sent = Spread(("Content-Type" :> "application/json")
                                 @@ ("Authorization" :> "Bearer " \o ToString(tok)),
                               pr.headers)]

onToken(pr, tok, S) ==
    Out(IF pr.kind = "request" THEN sendRequest(pr, tok) ELSE Returned(pr, tok), S)

NewExchange(p, cfg) ==
    [state |-> "pending", token |-> NULL, error |-> NoError, orig |-> p,
     clientId |-> cfg.clientId, secretKey |-> cfg.secretKey, resp |-> NoIssuerResponse]

\* getToken without the check of the refresh in progress.
getTokenNoSingleFlight(p, pr, forceRefresh, S, t, cfg) ==
    LET pr0 == [pr EXCEPT !.force = forceRefresh, !.ex = 0, !.nGetToken = @ + 1] IN
    IF ~forceRefresh /\ isTokenValid(S.ct, t)
      THEN onToken([pr0 EXCEPT !.role = "cached"], S.ct.token.access_token, S)
    ELSE IF Len(S.exs) >= MaxExchanges
      THEN Out(pr0, [S EXCEPT !.capped = TRUE])
    ELSE Out([pr0 EXCEPT !.pc = "awaitOwn", !.role = "originator", !.ex = Len(S.exs) + 1],
             [S EXCEPT !.rp = Len(S.exs) + 1, !.exs = Append(S.exs, NewExchange(p, cfg))])

\* getToken where forceRefresh also skips the refresh in progress.
getTokenForceBypass(p, pr, forceRefresh, S, t, cfg) ==
    LET pr0 == [pr EXCEPT !.force = forceRefresh, !.ex = 0, !.nGetToken = @ + 1] IN
    IF S.rp # 0 /\ ~forceRefresh
      THEN Out([pr0 EXCEPT !.pc = "awaitRefresh", !.role = "attached", !.ex = S.rp], S)
    ELSE IF ~forceRefresh /\ isTokenValid(S.ct, t)
      THEN onToken([pr0 EXCEPT !.role = "cached"], S.ct.token.access_token, S)
    ELSE IF Len(S.exs) >= MaxExchanges
      THEN Out(pr0, [S EXCEPT !.capped = TRUE])
    ELSE Out([pr0 EXCEPT !.pc = "awaitOwn", !.role = "originator", !.ex = Len(S.exs) + 1],
             [S EXCEPT !.rp = Len(S.exs) + 1, !.exs = Append(S.exs, NewExchange(p, cfg))])

\* getToken that never uses the cached token.
getTokenNoCache(p, pr, forceRefresh, S, t, cfg) ==
    LET pr0 == [pr EXCEPT !.force = forceRefresh, !.ex = 0, !.nGetToken = @ + 1] IN
    IF S.rp # 0
      THEN Out([pr0 EXCEPT !.pc = "awaitRefresh", !.role = "attached", !.ex = S.rp], S)
    ELSE IF Len(S.exs) >= MaxExchanges
      THEN Out(pr0, [S EXCEPT !.capped = TRUE])
    ELSE Out([pr0 EXCEPT !.pc = "awaitOwn", !.role = "originator", !.ex = Len(S.exs) + 1],
             [S EXCEPT !.rp = Len(S.exs) + 1, !.exs = Append(S.exs, NewExchange(p, cfg))])

\* getToken(forceRefresh) by caller p up to its first await.
getToken(p, pr, forceRefresh, S, t, cfg) ==
    LET pr0 == [pr EXCEPT !.force = forceRefresh, !.ex = 0, !.nGetToken = @ + 1] IN
    IF S.rp # 0
      THEN Out([pr0 EXCEPT !.pc = "awaitRefresh", !.role = "attached", !.ex = S.rp], S)
    ELSE IF ~forceRefresh /\ isTokenValid(S.ct, t)
      THEN onToken([pr0 EXCEPT !.role = "cached"], S.ct.token.access_token, S)
    ELSE IF Len(S.exs) >= MaxExchanges
      THEN Out(pr0, [S EXCEPT !.capped = TRUE])
    ELSE Out([pr0 EXCEPT !.pc = "awaitOwn", !.role = "originator", !.ex = Len(S.exs) + 1],
             [S EXCEPT !.rp = Len(S.exs) + 1, !.exs = Append(S.exs, NewExchange(p, cfg))])

(* ---------------------- makeAuthenticatedRequest ---------------------- *)
\* retryAfter || retryDelay
OrDelay(retryAfter, retryDelay) ==
    IF retryAfter = 0 \/ retryAfter = NaN THEN retryDelay ELSE retryAfter

Sleeping(pr, ms) == [pr EXCEPT !.pc = "sleep", !.sleepMs = ms, !.nSleeps = @ + 1]

\* The catch block without the break on the errors that are never retried.
requestCatchNoBreak(p, pr, err, S, t, cfg) ==
    LET pr1 == [pr EXCEPT !.lastError = err,
                          !.allRetryable = @ /\ RetryableError(err)] IN
    IF err.cls = "RateLimitError" /\ pr.attempt < pr.retries
      THEN Out(Sleeping(pr1, OrDelay(err.retryAfter, cfg.retryDelay) * Pow2(pr.attempt)), S)
    ELSE IF err.cls = "TokenExpiredError" /\ pr.attempt < pr.retries
      THEN Out(Sleeping(pr1, cfg.retryDelay * Pow2(pr.attempt)), [S EXCEPT !.ct = NULL])
    ELSE IF err.cls = "NetworkError" /\ pr.attempt < pr.retries
      THEN Out(Sleeping(pr1, cfg.retryDelay * Pow2(pr.attempt)), S)
    ELSE IF pr.attempt = pr.retries
      THEN Out(Thrown(pr1, err), S)
    ELSE getToken(p, [pr1 EXCEPT !.attempt = @ + 1], TRUE, S, t, cfg)

\* The catch block of a loop that runs one attempt more than its budget.
requestCatchOneMore(p, pr, err, S, t, cfg) ==
    LET pr1 == [pr EXCEPT !.lastError = err,
                          !.allRetryable = @ /\ RetryableError(err)] IN
    IF \/ err.cls = "InvalidCredentialsError"
       \/ err.cls = "ConfigurationError"
       \/ (IsAuthenticationError(err) /\ err.code = "RPC_NOT_FOUND")
      THEN Out(Thrown(pr1, err), S)
    ELSE IF err.cls = "RateLimitError" /\ pr.attempt < pr.retries + 1
      THEN Out(Sleeping(pr1, OrDelay(err.retryAfter, cfg.retryDelay) * Pow2(pr.attempt)), S)
    ELSE IF err.cls = "TokenExpiredError" /\ pr.attempt < pr.retries + 1
      THEN Out(Sleeping(pr1, cfg.retryDelay * Pow2(pr.attempt)), [S EXCEPT !.ct = NULL])
    ELSE IF err.cls = "NetworkError" /\ pr.attempt < pr.retries + 1
      THEN Out(Sleeping(pr1, cfg.retryDelay * Pow2(pr.attempt)), S)
    ELSE IF pr.attempt = pr.retries + 1
      THEN Out(Thrown(pr1, err), S)
    ELSE getToken(p, [pr1 EXCEPT !.attempt = @ + 1], TRUE, S, t, cfg)

\* The catch block of the retry loop for the error of attempt pr.attempt, and
\* what follows it in the same synchronous run.
requestCatch(p, pr, err, S, t, cfg) ==
    LET pr1 == [pr EXCEPT !.lastError = err,
                          !.allRetryable = @ /\ RetryableError(err)] IN
    IF \/ err.cls = "InvalidCredentialsError"
       \/ err.cls = "ConfigurationError"
       \/ (IsAuthenticationError(err) /\ err.code = "RPC_NOT_FOUND")
      THEN Out(Thrown(pr1, err), S)
    ELSE IF err.cls = "RateLimitError" /\ pr.attempt < pr.retries
      THEN Out(Sleeping(pr1, OrDelay(err.retryAfter, cfg.retryDelay) * Pow2(pr.attempt)), S)
    ELSE IF err.cls = "TokenExpiredError" /\ pr.attempt < pr.retries
      THEN Out(Sleeping(pr1, cfg.retryDelay * Pow2(pr.attempt)), [S EXCEPT !.ct = NULL])
    ELSE IF err.cls = "NetworkError" /\ pr.attempt < pr.retries
      THEN Out(Sleeping(pr1, cfg.retryDelay * Pow2(pr.attempt)), S)
    ELSE IF pr.attempt = pr.retries
      THEN Out(Thrown(pr1, err), S)
    ELSE getToken(p, [pr1 EXCEPT !.attempt = @ + 1], TRUE, S, t, cfg)

\* A loop that sends the business request although getToken rejected.
onErrorSendsAnyway(p, pr, err, S, t, cfg) ==
    IF pr.kind = "request" THEN Out(sendRequest(pr, 0), S)
    ELSE Out(Thrown(pr, err), S)

\* getToken rejected for caller p.
onError(p, pr, err, S, t, cfg) ==
    IF pr.kind = "request" THEN requestCatch(p, pr, err, S, t, cfg)
    ELSE Out(Thrown(pr, err), S)

(* ------------------------------ actions ------------------------------- *)
InitialConfig ==
    [clientId |-> "c1", secretKey |-> "s1", tokenCacheTtl |-> DefaultTokenCacheTtl,
     maxRetries |-> DefaultMaxRetries, retryDelay |-> DefaultRetryDelay]

\* The partial configurations passed to updateConfig.
ConfigUpdates == { [clientId |-> "c2"] }

Merge(cfg, updates) ==
    [k \in DOMAIN cfg |-> IF k \in DOMAIN updates THEN updates[k] ELSE cfg[k]]

Init ==
    /\ config = InitialConfig
    /\ cachedToken = NULL
    /\ refreshPromise = 0
    /\ exchanges = << >>
    /\ now = 0
    /\ procs = [p \in Procs |-> IdleProc]

Here == Fields(refreshPromise, cachedToken, exchanges)

\* The synchronous run of caller p ends in o.
Commit(p, o) ==
    /\ ~o.S.capped
    /\ procs' = [procs EXCEPT ![p] = o.pr]
    /\ refreshPromise' = o.S.rp
    /\ cachedToken' = o.S.ct
    /\ exchanges' = o.S.exs
    /\ UNCHANGED <<config, now>>

\* Callers that only call getToken are interchangeable: they are numbered in
\* the order of their calls.
InCallOrder(p) ==
    \A q \in Procs \ Requesters : q < p => procs[q].pc # "idle"

\* A caller calls getToken(forceRefresh).
CallGetToken(p, forceRefresh) ==
    /\ procs[p].pc = "idle"
    /\ InCallOrder(p)
    /\ Commit(p, getToken(p, [IdleProc EXCEPT !.kind = "getToken"], forceRefresh,
                          Here, now, config))

\* A caller calls makeAuthenticatedRequest(url, {retries}): attempt 0 up to
\* its first await.
CallRequestWith(p, retries, headers) ==
    /\ procs[p].pc = "idle"
    /\ Commit(p, getToken(p, [IdleProc EXCEPT !.kind = "request", !.retries = retries,
                                              !.headers = headers],
                          FALSE, Here, now, config))

\* makeAuthenticatedRequest(url, {retries}) without headers of the caller.
CallRequest(p, retries) == CallRequestWith(p, retries, NoHeaders)

\* SettleExchange where a failed exchange drops the cached token.
SettleExchangeClears(e, resp) ==
    /\ Pending(e)
    /\ LET r == fetchNewToken(resp, now) IN
        /\ exchanges' = [exchanges EXCEPT ![e].state = IF r.ok THEN "fulfilled" ELSE "rejected",
                                          ![e].token = r.token,
                                          ![e].error = r.error,
                                          ![e].resp = resp]
        /\ cachedToken' = IF r.ok THEN cacheToken(r.token, config, now) ELSE NULL
    /\ UNCHANGED <<config, refreshPromise, now, procs>>

\* SettleExchange where an exchange the handle no longer refers to is
\* cancelled: its token is not cached.
SettleExchangeDetached(e, resp) ==
    /\ Pending(e)
    /\ LET r == fetchNewToken(resp, now) IN
        /\ exchanges' = [exchanges EXCEPT ![e].state = IF r.ok THEN "fulfilled" ELSE "rejected",
                                          ![e].token = r.token,
                                          ![e].error = r.error,
                                          ![e].resp = resp]
        /\ cachedToken' = IF r.ok /\ refreshPromise = e
                             THEN cacheToken(r.token, config, now) ELSE cachedToken
    /\ UNCHANGED <<config, refreshPromise, now, procs>>

\* The issuer answers exchange e: the rest of fetchNewToken runs, caches the
\* token on success, and settles the promise.
SettleExchange(e, resp) ==
    /\ Pending(e)
    /\ LET r == fetchNewToken(resp, now) IN
        /\ exchanges' = [exchanges EXCEPT ![e].state = IF r.ok THEN "fulfilled" ELSE "rejected",
                                          ![e].token = r.token,
                                          ![e].error = r.error,
                                          ![e].resp = resp]
        /\ cachedToken' = IF r.ok THEN cacheToken(r.token, config, now) ELSE cachedToken
    /\ UNCHANGED <<config, refreshPromise, now, procs>>

\* The originator of e has run its continuation (reactions of a promise run in
\* the order of the awaits, and the originator awaits first).
OriginatorResumed(e) ==
    LET o == exchanges[e].orig IN ~(procs[o].pc = "awaitOwn" /\ procs[o].ex = e)

\* ResumeGetToken whose catch block does not release the handle.
ResumeGetTokenKeepsHandle(p) ==
    LET pr == procs[p]
        e == pr.ex
        S == IF pr.pc = "awaitOwn" /\ exchanges[e].state = "fulfilled"
               THEN [Here EXCEPT !.rp = 0] ELSE Here
    IN
    /\ pr.pc \in {"awaitOwn", "awaitRefresh"}
    /\ ~Pending(e)
    /\ pr.pc = "awaitRefresh" => OriginatorResumed(e)
    /\ Commit(p, IF exchanges[e].state = "fulfilled"
                   THEN onToken(pr, exchanges[e].token.access_token, S)
                   ELSE onError(p, pr, exchanges[e].error, S, now, config))

\* A refresh handle whose rejection never reaches the callers attached to it.
ResumeGetTokenDropsRejection(p) ==
    LET pr == procs[p]
        e == pr.ex
        S == IF pr.pc = "awaitOwn" THEN [Here EXCEPT !.rp = 0] ELSE Here
    IN
    /\ pr.pc \in {"awaitOwn", "awaitRefresh"}
    /\ ~Pending(e)
    /\ pr.pc = "awaitRefresh" => OriginatorResumed(e) /\ exchanges[e].state = "fulfilled"
    /\ Commit(p, IF exchanges[e].state = "fulfilled"
                   THEN onToken(pr, exchanges[e].token.access_token, S)
                   ELSE onError(p, pr, exchanges[e].error, S, now, config))

\* Caller p resumes from its await of a settled exchange, inside getToken.
ResumeGetToken(p) ==
    LET pr == procs[p]
        e == pr.ex
        S == IF pr.pc = "awaitOwn" THEN [Here EXCEPT !.rp = 0] ELSE Here
    IN
    /\ pr.pc \in {"awaitOwn", "awaitRefresh"}
    /\ ~Pending(e)
    /\ pr.pc = "awaitRefresh" => OriginatorResumed(e)
    /\ Commit(p, IF exchanges[e].state = "fulfilled"
                   THEN onToken(pr, exchanges[e].token.access_token, S)
                   ELSE onError(p, pr, exchanges[e].error, S, now, config))

\* RequestResponse where a 401 discards the cached token only when it is the
\* one the request was sent with.
RequestResponseClearsOwn(p, resp) ==
    LET pr == [procs[p] EXCEPT !.resp = resp]
        h == handleResponse(resp)
        S == IF h.clear /\ cachedToken # NULL
                /\ cachedToken.token.access_token = pr.token
               THEN [Here EXCEPT !.ct = NULL] ELSE Here
    IN
    /\ pr.pc = "fetch"
    /\ Commit(p, IF resp.throws THEN requestCatch(p, pr, TransportError, Here, now, config)
                 ELSE IF h.returns
                   THEN Out([pr EXCEPT !.pc = "done", !.outcome = "returned",
                                       !.result = h.result,
                                       !.allRetryable =
                                           @ /\ h.result.status \in {401, 429}], S)
                 ELSE requestCatch(p, pr, h.error, S, now, config))

\* The business endpoint answers caller p's request.
RequestResponse(p, resp) ==
    LET pr == [procs[p] EXCEPT !.resp = resp]
        h == handleResponse(resp)
        S == IF h.clear THEN [Here EXCEPT !.ct = NULL] ELSE Here
    IN
    /\ pr.pc = "fetch"
    /\ Commit(p, IF resp.throws THEN requestCatch(p, pr, TransportError, Here, now, config)
                 ELSE IF h.returns
                   THEN Out([pr EXCEPT !.pc = "done", !.outcome = "returned",
                                       !.result = h.result,
                                       !.allRetryable =
                                           @ /\ h.result.status \in {401, 429}], S)
                 ELSE requestCatch(p, pr, h.error, S, now, config))

\* The sleep of caller p ends: the loop goes to its next attempt.
WakeUp(p) ==
    LET pr == procs[p] IN
    /\ pr.pc = "sleep"
    /\ Commit(p, getToken(p, [pr EXCEPT !.attempt = @ + 1], TRUE, Here, now, config))

\* clearToken that also releases the refresh handle, as dispose does.
clearTokenReleasesHandle ==
    /\ cachedToken' = NULL
    /\ refreshPromise' = 0
    /\ UNCHANGED <<config, exchanges, now, procs>>

clearToken ==
    /\ cachedToken' = NULL
    /\ UNCHANGED <<config, refreshPromise, exchanges, now, procs>>

updateConfig(updates) ==
    /\ config' = Merge(config, updates)
    /\ cachedToken' = NULL
    /\ UNCHANGED <<refreshPromise, exchanges, now, procs>>

dispose ==
    /\ cachedToken' = NULL
    /\ refreshPromise' = 0
    /\ UNCHANGED <<config, exchanges, now, procs>>

Next ==
    \/ \E p \in Procs, f \in BOOLEAN : CallGetToken(p, f)
    \/ \E p \in Requesters, r \in 0..MaxRetries : CallRequest(p, r)
    \/ \E e \in 1..Len(exchanges) : \E resp \in IssuerResponses(e) : SettleExchange(e, resp)
    \/ \E p \in Procs : ResumeGetToken(p)
    \/ \E p \in Procs, resp \in BusinessResponses : RequestResponse(p, resp)
    \/ \E p \in Procs : WakeUp(p)
    \/ clearToken
    \/ \E u \in ConfigUpdates : updateConfig(u)
    \/ dispose

Spec == Init /\ [][Next]_vars

(* ------------------------- the passage of time ------------------------ *)
\* The cache lifetimes the instance is configured with: the default, and a
\* short one that caps the lifetime the issuer declares.
CacheTtls == { DefaultTokenCacheTtl, 3 * bufferTime }

InitTime ==
    /\ \E ttl \in CacheTtls : config = [InitialConfig EXCEPT !.tokenCacheTtl = ttl]
    /\ cachedToken = NULL
    /\ refreshPromise = 0
    /\ exchanges = << >>
    /\ now = 0
    /\ procs = [p \in Procs |-> IdleProc]

\* Date.now() advances by one safety buffer while nothing runs.
Tick ==
    /\ now < MaxTicks * bufferTime
    /\ now' = now + bufferTime
    /\ UNCHANGED <<config, cachedToken, refreshPromise, exchanges, procs>>

\* getTokenInfo() that evicts an entry it finds no longer valid.
CallGetTokenInfoEvicts(p) ==
    /\ procs[p].pc = "idle"
    /\ InCallOrder(p)
    /\ procs' = [procs EXCEPT ![p] =
                    [IdleProc EXCEPT !.kind = "getTokenInfo", !.pc = "done",
                                     !.outcome = "returned",
                                     !.info = getTokenInfo(cachedToken, now)]]
    /\ cachedToken' = IF isTokenValid(cachedToken, now) THEN cachedToken ELSE NULL
    /\ UNCHANGED <<config, refreshPromise, exchanges, now>>

\* A caller calls getTokenInfo(): it returns in the same synchronous run.
CallGetTokenInfo(p) ==
    /\ procs[p].pc = "idle"
    /\ InCallOrder(p)
    /\ procs' = [procs EXCEPT ![p] =
                    [IdleProc EXCEPT !.kind = "getTokenInfo", !.pc = "done",
                                     !.outcome = "returned",
                                     !.info = getTokenInfo(cachedToken, now)]]
    /\ UNCHANGED <<config, cachedToken, refreshPromise, exchanges, now>>

\* The issuer answers exchange e with a token and Date.now() moves to the
\* next millisecond between its read in createJWTToken and its read in
\* cacheToken.
SettleExchangeLate(e, resp) ==
    /\ Pending(e)
    /\ LET r == fetchNewToken(resp, now) IN
        /\ r.ok
        /\ exchanges' = [exchanges EXCEPT ![e].state = "fulfilled",
                                          ![e].token = r.token,
                                          ![e].error = r.error,
                                          ![e].resp = resp]
        /\ cachedToken' = cacheToken(r.token, config, now + ClockStep)
    /\ now' = now + ClockStep
    /\ UNCHANGED <<config, refreshPromise, procs>>

NextTime ==
    \/ \E p \in Procs, f \in BOOLEAN : CallGetToken(p, f)
    \/ \E e \in 1..Len(exchanges) : \E resp \in TimedIssuerResponses(e) :
           SettleExchange(e, resp)
    \/ \E e \in 1..Len(exchanges) : \E resp \in TimedIssuerResponses(e) :
           SettleExchangeLate(e, resp)
    \/ \E p \in Procs : ResumeGetToken(p)
    \/ \E p \in Procs : CallGetTokenInfo(p)
    \/ clearToken
    \/ Tick

SpecTime == InitTime /\ [][NextTime]_vars

(* ------------------------------ clearing ------------------------------ *)
\* The client with clearToken as the only operation on the store from
\* outside the callers.
NextClear ==
    \/ \E p \in Procs, f \in BOOLEAN : CallGetToken(p, f)
    \/ \E p \in Requesters, r \in 0..MaxRetries : CallRequest(p, r)
    \/ \E e \in 1..Len(exchanges) : \E resp \in IssuerResponses(e) : SettleExchange(e, resp)
    \/ \E p \in Procs : ResumeGetToken(p)
    \/ \E p \in Procs, resp \in BusinessResponses : RequestResponse(p, resp)
    \/ \E p \in Procs : WakeUp(p)
    \/ clearToken

SpecClear == Init /\ [][NextClear]_vars

(* ------------------------- the store's writers ------------------------ *)
\* Every operation of the client that reads or writes the store.
NextStore ==
    \/ \E p \in Procs, f \in BOOLEAN : CallGetToken(p, f)
    \/ \E p \in Requesters, r \in 0..MaxRetries : CallRequest(p, r)
    \/ \E p \in Procs : CallGetTokenInfo(p)
    \/ \E e \in 1..Len(exchanges) : \E resp \in IssuerResponses(e) : SettleExchange(e, resp)
    \/ \E p \in Procs : ResumeGetToken(p)
    \/ \E p \in Procs, resp \in BusinessResponses : RequestResponse(p, resp)
    \/ \E p \in Procs : WakeUp(p)
    \/ clearToken
    \/ \E u \in ConfigUpdates : updateConfig(u)
    \/ dispose

SpecStore == Init /\ [][NextStore]_vars

(* ------------------------ issuer classification ----------------------- *)
NextIssuer ==
    \/ \E p \in Procs, f \in BOOLEAN : CallGetToken(p, f)
    \/ \E e \in 1..Len(exchanges) : \E resp \in ClassifiedIssuerResponses(e) :
           SettleExchange(e, resp)
    \/ \E p \in Procs : ResumeGetToken(p)

SpecIssuer == Init /\ [][NextIssuer]_vars

(* ------------------------------ back-off ------------------------------ *)
\* The base delays the instance is configured with and the Retry-After
\* headers of a 429 answer: absent, zero, smaller and larger than a base
\* delay, and not a number.
RetryDelays == { DefaultRetryDelay, 3 * DefaultRetryDelay }
RetryAfterHeaders == { "", "0", "1", "2", "soon" }

InitBackoff ==
    /\ \E d \in RetryDelays : config = [InitialConfig EXCEPT !.retryDelay = d]
    /\ cachedToken = NULL
    /\ refreshPromise = 0
    /\ exchanges = << >>
    /\ now = 0
    /\ procs = [p \in Procs |-> IdleProc]

\* The catch block of attempt a of a request with retry count r receives the
\* RateLimitError that handleResponse builds for a 429 answer with the given
\* Retry-After header.
CatchRateLimit(p, header, a, r) ==
    /\ procs[p].pc = "idle"
    /\ a <= r
    /\ LET resp == BusinessResponse(FALSE, 429, TRUE, header)
           pr == [IdleProc EXCEPT !.kind = "request", !.pc = "fetch", !.retries = r,
                                  !.attempt = a, !.nGetToken = a + 1,
                                  !.nBusiness = a + 1, !.resp = resp]
       IN Commit(p, requestCatch(p, pr, handleResponseTry(resp).error, Here, now, config))

NextBackoff ==
    \/ \E p \in Procs, header \in RetryAfterHeaders, a, r \in 0..MaxRetries :
           CatchRateLimit(p, header, a, r)
    \/ \E p \in Procs : WakeUp(p)

SpecBackoff == InitBackoff /\ [][NextBackoff]_vars

(* ------------------------------ timeouts ------------------------------ *)
\* AbortSignal.timeout(timeout) fires for caller p's business request: fetch
\* rejects.
BusinessTimeout(p) == RequestResponse(p, BusinessResponse(TRUE, 0, FALSE, ""))

\* What the event loop guarantees: a settled promise's continuation runs, a
\* sleep's timer fires, and the timer of a business request's abort signal
\* fires unless the request was answered before.  The exchange with the
\* issuer is sent without an abort signal, and the network owes no answer.
Fairness ==
    \A p \in Procs :
        /\ WF_vars(ResumeGetToken(p))
        /\ WF_vars(WakeUp(p))
        /\ WF_vars(BusinessTimeout(p))

SpecLive == Init /\ [][Next]_vars /\ Fairness

(* ----------------------------- termination ---------------------------- *)
\* The getToken calls caller p has made or may still make: one per attempt
\* of a request, one for a getToken call.
RECURSIVE CallsOwed(_)
CallsOwed(n) ==
    IF n = 0 THEN 0
    ELSE CallsOwed(n - 1) +
         (IF procs[n].pc = "idle" THEN 0
          ELSE IF procs[n].kind = "request" THEN procs[n].retries + 1
          ELSE 1)

\* n more getToken calls can each start an exchange of their own.
WithinExchanges(n) == CallsOwed(NProcs) + n <= MaxExchanges

\* The business answers a request can end or go on with.
FinalBusinessResponses ==
    { BusinessResponse(TRUE, 0, FALSE, ""),
      BusinessResponse(FALSE, 200, TRUE, ""),
      BusinessResponse(FALSE, 401, TRUE, ""),
      BusinessResponse(FALSE, 200, FALSE, "") }

\* The issuer answers exchange e.
IssuerAnswers(e) ==
    /\ e \in 1..Len(exchanges)
    /\ \E resp \in IssuerResponses(e) : SettleExchange(e, resp)

\* The client under callers that together make no more getToken calls than
\* there are exchanges to start.
NextFair ==
    \/ \E p \in Procs, f \in BOOLEAN : WithinExchanges(1) /\ CallGetToken(p, f)
    \/ \E p \in Requesters, r \in 0..MaxRetries :
           WithinExchanges(r + 1) /\ CallRequest(p, r)
    \/ \E e \in 1..MaxExchanges : IssuerAnswers(e)
    \/ \E p \in Procs : ResumeGetToken(p)
    \/ \E p \in Procs, resp \in FinalBusinessResponses : RequestResponse(p, resp)
    \/ \E p \in Procs : WakeUp(p)
    \/ clearToken
    \/ \E u \in ConfigUpdates : updateConfig(u)
    \/ dispose

\* Every network call completes: the issuer answers every exchange (or its
\* fetch fails), and every business request is answered or fails.
NetworkFairness ==
    /\ \A e \in 1..MaxExchanges : WF_vars(IssuerAnswers(e))
    /\ \A p \in Procs : WF_vars(\E resp \in FinalBusinessResponses : RequestResponse(p, resp))

SpecFair == Init /\ [][NextFair]_vars /\ Fairness /\ NetworkFairness

(* --------------------------- request headers -------------------------- *)
\* The headers option of a call: none, a content type, a header of the
\* caller's own, a credential of the caller's own.
CallerHeaders ==
    { NoHeaders,
      "Content-Type" :> "text/plain",
      "X-Trace" :> "t1",
      "Authorization" :> "Basic abc" }

\* The issuer answers exchange e with a token, declaring its type or not, or
\* the fetch fails.
TokenTypes == { "", "Bearer", "DPoP" }
TypedIssuerResponses(e) ==
    { [IssuerResponse(FALSE, TRUE, 200, "", e, 0) EXCEPT !.token_type = tt] :
        tt \in TokenTypes }
      \cup { IssuerResponse(TRUE, FALSE, 0, "", 0, 0) }

NextHeaders ==
    \/ \E p \in Procs, f \in BOOLEAN : CallGetToken(p, f)
    \/ \E p \in Requesters, r \in 0..MaxRetries, h \in CallerHeaders :
           CallRequestWith(p, r, h)
    \/ \E e \in 1..Len(exchanges) : \E resp \in TypedIssuerResponses(e) :
           SettleExchange(e, resp)
    \/ \E p \in Procs : ResumeGetToken(p)
    \/ \E p \in Procs, resp \in FinalBusinessResponses : RequestResponse(p, resp)
    \/ \E p \in Procs : WakeUp(p)

SpecHeaders == Init /\ [][NextHeaders]_vars

(* ---------------------------- construction ---------------------------- *)
\* The configurations passed to the constructor, and the partial ones passed
\* to updateConfig, with absent, empty and mistyped fields among them.
ConfigArgs ==
    [clientId : {Undefined, "", NotAString, "c1"},
     secretKey : {Undefined, "", NotAString, "s1"}]

AnyConfigUpdates ==
    { [clientId |-> v] : v \in {Undefined, "", "c2"} }
        \cup { [secretKey |-> v] : v \in {NotAString, "s2"} }

\* No instance has been constructed yet.
InitConfig ==
    /\ config = NULL
    /\ cachedToken = NULL
    /\ refreshPromise = 0
    /\ exchanges = << >>
    /\ now = 0
    /\ procs = [p \in Procs |-> IdleProc]

\* Caller p runs new CoreAuth(arg): validateConfig, then the defaults merged
\* with arg.  When the constructor throws there is no instance.
Construct(p, arg) ==
    /\ config = NULL
    /\ procs[p].pc = "idle"
    /\ LET pr == [IdleProc EXCEPT !.kind = "constructor", !.arg = arg]
           err == validateConfig(arg)
       IN
       IF err # NoError
         THEN /\ procs' = [procs EXCEPT ![p] = Thrown(pr, err)]
              /\ config' = config
         ELSE /\ procs' = [procs EXCEPT ![p] = [pr EXCEPT !.pc = "done",
                                                          !.outcome = "returned"]]
              /\ config' = Merge(InitialConfig, arg)
    /\ UNCHANGED <<cachedToken, refreshPromise, exchanges, now>>

NextConfig ==
    \/ \E p \in Procs, arg \in ConfigArgs : Construct(p, arg)
    \/ config # NULL /\ \E p \in Procs, f \in BOOLEAN : CallGetToken(p, f)
    \/ \E e \in 1..Len(exchanges) : \E resp \in IssuerResponses(e) : SettleExchange(e, resp)
    \/ \E p \in Procs : ResumeGetToken(p)
    \/ config # NULL /\ \E u \in AnyConfigUpdates : updateConfig(u)

SpecConfig == InitConfig /\ [][NextConfig]_vars

(* ------------------------------ claims -------------------------------- *)
Awaiting(p) == procs[p].pc \in {"awaitOwn", "awaitRefresh"}

\* Caller p's latest getToken call took its result from an exchange and has
\* received it.
Delivered(p) ==
    /\ procs[p].role \in {"originator", "attached"}
    /\ procs[p].ex # 0
    /\ ~Awaiting(p)

\* In this step caller p calls getToken: from outside, or as the attempt that
\* follows a sleep.  The call reads the unprimed fields.
Calls(p) == procs[p].pc \in {"idle", "sleep"} /\ procs'[p] # procs[p]

\* The token every caller served by exchange e has received is e's token.
SameToken ==
    \A p \in Procs :
        (Delivered(p) /\ exchanges[procs[p].ex].state = "fulfilled")
            => procs[p].token = exchanges[procs[p].ex].token.access_token

\* C1: single-flight.  A getToken call made with no valid cached credential
\* and no refresh handle starts exactly one exchange; every call made while
\* that exchange is in flight starts none and waits for it; and all callers
\* served by one exchange resolve to that exchange's token.
C1_SingleFlight ==
    /\ []SameToken
    /\ [][\A p \in Procs : Calls(p) =>
            /\ (refreshPromise = 0 /\ ~isTokenValid(cachedToken, now)) =>
                  /\ Len(exchanges') = Len(exchanges) + 1
                  /\ refreshPromise' = Len(exchanges')
                  /\ procs'[p].pc = "awaitOwn" /\ procs'[p].ex = refreshPromise'
            /\ (refreshPromise # 0 /\ Pending(refreshPromise)) =>
                  /\ exchanges' = exchanges
                  /\ refreshPromise' = refreshPromise
                  /\ procs'[p].pc = "awaitRefresh" /\ procs'[p].ex = refreshPromise
       ]_vars

\* Two getToken calls were served by the only exchange ever started and both
\* have returned.
C1_Witness ==
    /\ Len(exchanges) = 1
    /\ \E p, q \in Procs :
        /\ p # q
        /\ procs[p].kind = "getToken" /\ procs[q].kind = "getToken"
        /\ procs[p].role = "originator" /\ procs[q].role = "attached"
        /\ procs[p].ex = 1 /\ procs[q].ex = 1
        /\ procs[p].outcome = "returned" /\ procs[q].outcome = "returned"
        /\ procs[p].token = procs[q].token

\* C2: at most one issuer exchange is in flight in every reachable state.
C2_AtMostOneInFlight == Cardinality(InFlight) <= 1

\* C3: getToken(true) called while the refresh handle is set starts no
\* exchange, waits for the exchange the handle refers to, and ends with that
\* exchange's result.
C3_ForceJoinsInFlight ==
    /\ [](\A p \in Procs :
            (Delivered(p) /\ procs[p].force /\ procs[p].role = "attached") =>
                LET x == exchanges[procs[p].ex] IN
                /\ x.state = "fulfilled" => procs[p].token = x.token.access_token
                /\ x.state = "rejected" => procs[p].lastError = x.error)
    /\ [][\A p \in Procs : (Calls(p) /\ procs'[p].force /\ refreshPromise # 0) =>
            /\ exchanges' = exchanges
            /\ refreshPromise' = refreshPromise
            /\ procs'[p].pc = "awaitRefresh"
            /\ procs'[p].role = "attached"
            /\ procs'[p].ex = refreshPromise
       ]_vars

\* A getToken(true) call has joined an exchange another caller started and has
\* returned its token.
C3_Witness ==
    \E p \in Procs :
        /\ procs[p].kind = "getToken" /\ procs[p].force
        /\ procs[p].role = "attached"
        /\ procs[p].outcome = "returned"
        /\ exchanges[procs[p].ex].orig # p
        /\ procs[p].token = exchanges[procs[p].ex].token.access_token

\* C4: getToken(false) called with no refresh handle and a valid cached entry
\* returns the cached token at once, starts no exchange, and leaves the store
\* and the handle as they were.
C4_CachedTokenReturned ==
    [][\A p \in Procs :
          (/\ Calls(p) /\ ~procs'[p].force
           /\ refreshPromise = 0 /\ isTokenValid(cachedToken, now)) =>
            /\ exchanges' = exchanges
            /\ cachedToken' = cachedToken
            /\ refreshPromise' = 0
            /\ procs'[p].role = "cached"
            /\ procs'[p].token = cachedToken.token.access_token
            /\ procs'[p].kind = "getToken" => procs'[p].outcome = "returned"
            /\ procs'[p].kind = "request" => procs'[p].pc = "fetch"
    ]_vars

\* A getToken(false) call has returned the cached token.
C4_Witness ==
    \E p \in Procs :
        /\ procs[p].kind = "getToken" /\ ~procs[p].force
        /\ procs[p].role = "cached"
        /\ procs[p].outcome = "returned"
        /\ procs[p].token # 0

\* C5: a failed exchange rejects every caller waiting on it with its own
\* error, and neither its failure nor the delivery of the failure touches the
\* credential store.
C5_FailureDelivered ==
    /\ [](\A p \in Procs :
            (Delivered(p) /\ exchanges[procs[p].ex].state = "rejected") =>
                /\ procs[p].lastError = exchanges[procs[p].ex].error
                /\ procs[p].kind = "getToken" => procs[p].outcome = "thrown")
    /\ [][(\E e \in 1..Len(exchanges) : Pending(e) /\ exchanges'[e].state = "rejected")
            => cachedToken' = cachedToken]_vars
    /\ [][\A p \in Procs :
            (/\ Awaiting(p) /\ procs'[p] # procs[p]
             /\ exchanges[procs[p].ex].state = "rejected") => cachedToken' = cachedToken]_vars

\* An exchange has failed while an earlier credential was cached: both its
\* originator and a caller attached to it were rejected with its error, and
\* the earlier credential is still cached.
C5_Witness ==
    \E p, q \in Procs :
        /\ p # q
        /\ procs[p].role = "originator" /\ procs[q].role = "attached"
        /\ procs[p].ex = procs[q].ex /\ procs[p].ex # 0
        /\ exchanges[procs[p].ex].state = "rejected"
        /\ procs[p].outcome = "thrown" /\ procs[q].outcome = "thrown"
        /\ procs[p].lastError = procs[q].lastError
        /\ cachedToken # NULL

\* C6: the continuation of the originator releases the handle on success and
\* on failure, the handle never refers to an exchange whose originator has
\* resumed, and a getToken call that then finds no handle and no valid cached
\* credential starts a new exchange.
C6_HandleReleased ==
    /\ [](\A e \in 1..Len(exchanges) :
            (~Pending(e) /\ OriginatorResumed(e)) => refreshPromise # e)
    /\ [][\A p \in Procs :
            (procs[p].pc = "awaitOwn" /\ procs'[p] # procs[p]) =>
                \/ refreshPromise' = 0
                \/ /\ Len(exchanges') = Len(exchanges) + 1
                   /\ refreshPromise' = Len(exchanges')
       ]_vars
    /\ [][\A p \in Procs :
            (/\ Calls(p) /\ refreshPromise = 0 /\ ~isTokenValid(cachedToken, now)
             /\ \E e \in 1..Len(exchanges) : ~Pending(e)) =>
                /\ Len(exchanges') = Len(exchanges) + 1
                /\ procs'[p].ex = Len(exchanges')
       ]_vars

\* After a failed exchange and after a successful one whose credential is not
\* valid, a later getToken call has started a new exchange.
C6_Witness ==
    /\ Len(exchanges) = 3
    /\ exchanges[1].state = "rejected"
    /\ exchanges[2].state = "fulfilled"
    /\ OriginatorResumed(1) /\ OriginatorResumed(2)
    /\ refreshPromise = 3
    /\ ~procs[exchanges[3].orig].force

\* C7: a request all of whose attempts ended in a retryable classification
\* has made exactly retries+1 attempts.
C7_RetryExhaustion ==
    \A p \in Procs :
        (procs[p].kind = "request" /\ procs[p].pc = "done" /\ procs[p].allRetryable)
            => procs[p].attempt = procs[p].retries

\* C8: a request ends on a 401 response only when its attempt budget is used
\* up.
C8_Retry401 ==
    \A p \in Procs :
        (procs[p].kind = "request" /\ procs[p].pc = "done" /\ procs[p].result.status = 401)
            => procs[p].attempt = procs[p].retries

\* C9: the step that classifies a 401 response leaves the credential store
\* empty and getTokenInfo().isValid false.
C9_Clear401 ==
    [][\A p \in Procs :
          (procs[p].pc = "fetch" /\ procs'[p].pc # "fetch"
           /\ (procs'[p].result.status = 401
               \/ (procs'[p].lastError.cls = "TokenExpiredError"
                   /\ procs[p].lastError.cls # "TokenExpiredError"))) =>
            /\ cachedToken' = NULL
            /\ ~getTokenInfo(cachedToken', now').isValid
    ]_vars

\* A request was answered 401 and the store is empty.
C9_Witness ==
    \E p \in Procs :
        /\ procs[p].kind = "request"
        /\ procs[p].result.status = 401
        /\ cachedToken = NULL

\* C10: a request ends on a 429 response only when its attempt budget is used
\* up.
C10_Retry429 ==
    \A p \in Procs :
        (procs[p].kind = "request" /\ procs[p].pc = "done" /\ procs[p].result.status = 429)
            => procs[p].attempt = procs[p].retries

Request(p) == procs[p].kind = "request"

\* The request of caller p has ended at an attempt that left budget unused.
EndedEarly(p) ==
    /\ Request(p)
    /\ procs[p].pc = "done"
    /\ procs[p].attempt < procs[p].retries

\* C11: a request whose attempt failed with InvalidCredentialsError or
\* ConfigurationError has ended at that attempt by throwing that error: it
\* is not sleeping, not waiting for an exchange and not calling the business
\* endpoint, and that attempt has made no business call.
C11_NonRetryEndsLoop ==
    \A p \in Procs :
        (Request(p)
         /\ procs[p].lastError.cls \in {"InvalidCredentialsError", "ConfigurationError"}) =>
            /\ procs[p].pc = "done"
            /\ procs[p].outcome = "thrown"
            /\ procs[p].nGetToken = procs[p].attempt + 1
            /\ procs[p].nBusiness <= procs[p].attempt

\* A request has thrown InvalidCredentialsError with attempts left.
C11_Witness ==
    \E p \in Procs :
        /\ EndedEarly(p)
        /\ procs[p].outcome = "thrown"
        /\ procs[p].lastError = InvalidCredentialsError

\* C12: a request whose issuer exchange failed with a generic
\* AuthenticationError has ended at that attempt by throwing that error.
C12_GenericNotRetried ==
    \A p \in Procs :
        (Request(p)
         /\ procs[p].lastError.cls = "AuthenticationError") =>
            /\ procs[p].pc = "done"
            /\ procs[p].outcome = "thrown"

\* C13: a request whose latest business call failed at transport level has
\* NetworkError as the error of that attempt, which is the error it throws
\* when it ends there.
C13_TransportIsNetworkError ==
    \A p \in Procs :
        (Request(p) /\ procs[p].resp.throws) => procs[p].lastError.cls = "NetworkError"

\* C14: a request has slept once before each attempt after the first, a
\* sleep for TokenExpiredError or NetworkError after the attempt of 0-based
\* ordinal a lasts retryDelay * 2^a, and a request at its last allowed
\* attempt does not sleep.
C14_SleepBetweenAttempts ==
    \A p \in Procs :
        Request(p) =>
            /\ procs[p].nSleeps
                  = procs[p].attempt + (IF procs[p].pc = "sleep" THEN 1 ELSE 0)
            /\ (procs[p].pc = "sleep"
                 /\ procs[p].lastError.cls \in {"TokenExpiredError", "NetworkError"}) =>
                    procs[p].sleepMs = config.retryDelay * Pow2(procs[p].attempt)
            /\ procs[p].pc = "sleep" => procs[p].attempt < procs[p].retries

\* C15: a request with retry count r is at an attempt ordinal of at most r,
\* has called getToken once per ordinal reached and the business endpoint at
\* most once per ordinal reached: at most r+1 calls of each.
C15_AttemptBudget ==
    \A p \in Procs :
        Request(p) =>
            /\ procs[p].attempt <= procs[p].retries
            /\ procs[p].nGetToken = procs[p].attempt + 1
            /\ procs[p].nBusiness <= procs[p].attempt + 1
            /\ procs[p].nGetToken <= procs[p].retries + 1
            /\ procs[p].nBusiness <= procs[p].retries + 1

\* A request with a retry count of at least 1 has used its whole budget, with
\* a business call on every attempt.
C15_Witness ==
    \E p \in Procs :
        /\ Request(p)
        /\ procs[p].pc = "done"
        /\ procs[p].retries >= 1
        /\ procs[p].attempt = procs[p].retries
        /\ procs[p].nBusiness = procs[p].retries + 1

Is2xx(status) == status >= 200 /\ status < 300

\* The request of caller p has returned a result for the response it got.
ReturnedFor(p, success) ==
    /\ procs[p].pc = "done"
    /\ procs[p].outcome = "returned"
    /\ procs[p].result.success = success
    /\ procs[p].result.status = procs[p].resp.status

\* C16 as stated: a request that got a 2xx response has returned success for
\* it.
C16_Original ==
    \A p \in Procs :
        (Request(p) /\ Is2xx(procs[p].resp.status)) => ReturnedFor(p, TRUE)

\* C16: a request that got a 2xx response whose body could be read and parsed
\* has returned {success:true, status} for it and is at no further attempt.
C16_SuccessEndsLoop ==
    \A p \in Procs :
        (Request(p) /\ Is2xx(procs[p].resp.status) /\ procs[p].resp.bodyOk) =>
            /\ ReturnedFor(p, TRUE)
            /\ procs[p].nBusiness <= procs[p].attempt + 1

\* A request got a readable 2xx response on a retry, with attempts left.
C16_Witness ==
    \E p \in Procs :
        /\ EndedEarly(p)
        /\ procs[p].attempt >= 1
        /\ Is2xx(procs[p].resp.status) /\ procs[p].resp.bodyOk
        /\ procs[p].result.success

\* The body of the response, as far as handleResponse reads it, was read.
BodyRead(resp) == resp.bodyOk \/ resp.status \in {401, 429}

OtherErrorStatus(status) == status >= 400 /\ status \notin {401, 429}

StaleFrom(ct) ==
    ct.cachedAt + Min(config.tokenCacheTtl, ct.token.expires_in * 1000) - bufferTime

\* C19 as stated: at the instant an exchange's token is cached
\* getTokenInfo().isValid is true, and at every instant at or after
\* cachedAt + min(C, L * 1000) - 60000 it is false.
C19_Original ==
    cachedToken # NULL =>
        /\ now = cachedToken.cachedAt => getTokenInfo(cachedToken, now).isValid
        /\ now >= StaleFrom(cachedToken) => ~getTokenInfo(cachedToken, now).isValid

\* C19: at the instant an exchange's token is cached getTokenInfo().isValid
\* is true exactly when min(C, L * 1000) exceeds 60000, at every instant at
\* or after cachedAt + min(C, L * 1000) - 60000 it is false, and at every
\* earlier instant it is true.
C19_CacheValidity ==
    cachedToken # NULL =>
        /\ now = cachedToken.cachedAt =>
              (getTokenInfo(cachedToken, now).isValid
                 <=> Min(config.tokenCacheTtl, cachedToken.token.expires_in * 1000)
                        > bufferTime)
        /\ getTokenInfo(cachedToken, now).isValid <=> now < StaleFrom(cachedToken)

\* A token whose cache lifetime exceeds the safety buffer and is capped by
\* the configured one has been cached, and time has reached the instant from
\* which it is stale.
C19_Witness ==
    /\ cachedToken # NULL
    /\ config.tokenCacheTtl < cachedToken.token.expires_in * 1000
    /\ config.tokenCacheTtl > bufferTime
    /\ now > cachedToken.cachedAt
    /\ now = StaleFrom(cachedToken)
    /\ ~getTokenInfo(cachedToken, now).isValid

\* In this step caller p calls getToken(false) from outside.
CallsUnforced(p) ==
    /\ procs[p].pc = "idle" /\ procs'[p].pc # "idle"
    /\ procs'[p].kind \in {"getToken", "request"}
    /\ ~procs'[p].force

\* The cached entry is absent, or the instant is not strictly before its
\* expiry minus the safety buffer.
Stale == cachedToken = NULL \/ now >= cachedToken.expiresAt - bufferTime

\* C20: a getToken(false) call that returns the cached token is made with an
\* entry present and strictly before its expiry minus 60000 ms; a call made
\* with no refresh in flight and the entry absent or at or past that instant
\* starts an issuer exchange and waits for it.
C20_NoStaleToken ==
    [][\A p \in Procs : CallsUnforced(p) =>
          /\ procs'[p].role = "cached" =>
                /\ ~Stale
                /\ procs'[p].outcome = "returned"
                /\ procs'[p].token = cachedToken.token.access_token
          /\ (refreshPromise = 0 /\ Stale) =>
                /\ Len(exchanges') = Len(exchanges) + 1
                /\ refreshPromise' = Len(exchanges')
                /\ procs'[p].pc = "awaitOwn" /\ procs'[p].ex = refreshPromise'
      ]_vars

\* A getToken(false) caller has started the second exchange at the very
\* instant the entry cached by the first one stopped being served, after
\* time had passed.
C20_Witness ==
    /\ Len(exchanges) = 2
    /\ exchanges[1].state = "fulfilled" /\ Pending(2)
    /\ cachedToken # NULL
    /\ cachedToken.token = exchanges[1].token
    /\ now > cachedToken.cachedAt
    /\ now = cachedToken.expiresAt - bufferTime
    /\ LET o == exchanges[2].orig IN
         /\ procs[o].kind = "getToken" /\ ~procs[o].force
         /\ procs[o].pc = "awaitOwn" /\ procs[o].ex = 2

\* v is a non-empty string.
NonEmptyString(v) == v \notin {Undefined, NotAString, ""}

Constructor(p) == procs[p].kind = "constructor"

\* C21: a constructor call whose clientId or secretKey is missing, empty or
\* not a string has thrown ConfigurationError, every other one has returned;
\* and as long as no constructor call has returned there is no
\* configuration, no cached token, no refresh handle and no exchange.
C21_ConstructorValidates ==
    /\ \A p \in Procs : Constructor(p) =>
          IF NonEmptyString(procs[p].arg.clientId) /\ NonEmptyString(procs[p].arg.secretKey)
            THEN procs[p].outcome = "returned"
            ELSE procs[p].outcome = "thrown" /\ procs[p].lastError = ConfigurationError
    /\ (\A p \in Procs : procs[p].outcome # "returned") =>
          /\ config = NULL
          /\ cachedToken = NULL
          /\ refreshPromise = 0
          /\ exchanges = << >>

\* A constructor call with a valid clientId and no secretKey has thrown, and
\* there is no instance.
C21_Witness ==
    /\ config = NULL
    /\ \E p \in Procs :
         /\ Constructor(p)
         /\ procs[p].arg.clientId = "c1" /\ procs[p].arg.secretKey = Undefined
         /\ procs[p].outcome = "thrown"

\* C22: every issuer exchange was started with a clientId and a secretKey
\* that are non-empty strings.
C22_ValidIdentityOnNetwork ==
    \A e \in 1..Len(exchanges) :
        NonEmptyString(exchanges[e].clientId) /\ NonEmptyString(exchanges[e].secretKey)

\* The identity an exchange was started with is the configured one.
CurrentIdentity(x) == x.clientId = config.clientId /\ x.secretKey = config.secretKey

\* C23: a step that changes the configuration merges the given fields and
\* leaves the store empty and getTokenInfo().isValid false; and the first
\* getToken(false) after it that finds no refresh handle and no exchange in
\* flight starts an exchange with the merged clientId and secretKey.
C23_UpdateConfigClears ==
    [][/\ config' # config =>
            /\ \E u \in ConfigUpdates : config' = Merge(config, u)
            /\ cachedToken' = NULL
            /\ ~getTokenInfo(cachedToken', now').isValid
       /\ \A p \in Procs :
            (/\ CallsUnforced(p)
             /\ refreshPromise = 0 /\ InFlight = {}
             /\ config # InitialConfig
             /\ \A e \in 1..Len(exchanges) : ~CurrentIdentity(exchanges[e])) =>
                /\ Len(exchanges') = Len(exchanges) + 1
                /\ CurrentIdentity(exchanges'[Len(exchanges')])
      ]_vars

\* C24: an exchange that succeeds caches its token whatever clearToken() or
\* dispose() did while it was in flight, and every caller that has received
\* the result of an exchange has received that exchange's token or error.
C24_NoCancellation ==
    /\ [][\A e \in 1..Len(exchanges) :
            (Pending(e) /\ exchanges'[e].state = "fulfilled") =>
                /\ cachedToken' # NULL
                /\ cachedToken'.token = exchanges'[e].token
                /\ cachedToken'.cachedAt = now
       ]_vars
    /\ [](\A p \in Procs :
            (Delivered(p) /\ procs[p].kind = "getToken") =>
                LET x == exchanges[procs[p].ex] IN
                /\ x.state = "fulfilled" =>
                      /\ procs[p].outcome = "returned"
                      /\ procs[p].token = x.token.access_token
                /\ x.state = "rejected" =>
                      /\ procs[p].outcome = "thrown"
                      /\ procs[p].lastError = x.error)

\* dispose() was called while the only exchange ever started was in flight
\* (the handle is released and the originator has not resumed), no getToken
\* call was made since, and the store holds that exchange's token, valid.
C24_Witness ==
    /\ Len(exchanges) = 1
    /\ exchanges[1].state = "fulfilled"
    /\ refreshPromise = 0
    /\ procs[exchanges[1].orig].pc = "awaitOwn"
    /\ \A p \in Procs : p # exchanges[1].orig => procs[p].pc = "idle"
    /\ cachedToken # NULL
    /\ cachedToken.token = exchanges[1].token
    /\ getTokenInfo(cachedToken, now).isValid

\* C27: a retry attempt made while the store holds a valid entry and no
\* refresh is in progress starts no exchange and sends the cached token.
C27_RetryUsesCache ==
    [][\A p \in Procs :
          (/\ Request(p)
           /\ procs'[p].attempt > procs[p].attempt
           /\ refreshPromise = 0
           /\ isTokenValid(cachedToken, now)) =>
              /\ Len(exchanges') = Len(exchanges)
              /\ procs'[p].pc = "fetch"
              /\ procs'[p].token = cachedToken.token.access_token
      ]_vars

\* C28: the handle that refers to an exchange in flight keeps referring to
\* it in every step other than dispose() (the only step that changes the
\* handle and no caller) for as long as the exchange stays in flight.
C28_HandleTracksExchange ==
    [][\A e \in 1..Len(exchanges) :
          (/\ refreshPromise = e
           /\ Pending(e)
           /\ exchanges'[e].state = "pending"
           /\ procs' # procs) => refreshPromise' = e
      ]_vars

\* C29: the store never holds a credential of an exchange that was started
\* under another clientId or secretKey than the configured ones.
C29_NoCredentialOfOldIdentity ==
    cachedToken # NULL => CurrentIdentity(exchanges[cachedToken.token.access_token])

\* In this step caller p's business request is answered 401.
Classifies401(p) ==
    procs[p].pc = "fetch" /\ procs'[p].pc # "fetch" /\ procs'[p].resp.status = 401

\* The store holds another credential than the one caller p's request was
\* sent with.
OtherCached(p) ==
    cachedToken # NULL /\ cachedToken.token.access_token # procs[p].token

\* C30 as stated: a 401 answer to a request sent with another credential
\* than the cached one leaves the cached one in the store.
C30_Original ==
    [][\A p \in Procs : (Classifies401(p) /\ OtherCached(p)) => cachedToken' = cachedToken]_vars

\* C30: a 401 answer empties the store also when the store holds another
\* credential than the one the request was sent with.
C30_Clear401Any ==
    [][\A p \in Procs : (Classifies401(p) /\ OtherCached(p)) => cachedToken' = NULL]_vars

\* A request sent with the token of exchange 1 was answered 401 after a
\* forced refresh had returned the token of exchange 2, and the store is
\* empty although the configuration was never updated.
C30_Witness ==
    /\ config = InitialConfig
    /\ cachedToken = NULL
    /\ Len(exchanges) = 2
    /\ exchanges[2].state = "fulfilled"
    /\ \E p, q \in Procs :
         /\ Request(p)
         /\ procs[p].pc = "done" /\ procs[p].result.status = 401
         /\ procs[p].token = 1 /\ procs[p].attempt = 0
         /\ procs[q].kind = "getToken" /\ procs[q].force
         /\ procs[q].outcome = "returned" /\ procs[q].token = 2

\* C25: every exchange in flight is eventually settled, every caller waiting
\* in getToken eventually stops waiting, a refresh handle that is set is
\* eventually released, and every business call in flight eventually ends.
C25_EverySendTimesOut ==
    /\ \A e \in 1..MaxExchanges : (e \in InFlight) ~> (e \notin InFlight)
    /\ \A p \in Procs : Awaiting(p) ~> ~Awaiting(p)
    /\ (refreshPromise # 0) ~> (refreshPromise = 0)
    /\ \A p \in Procs : (procs[p].pc = "fetch") ~> (procs[p].pc # "fetch")

\* C26: a getTokenInfo() call leaves the configuration, the store, the
\* refresh handle and the exchanges as they were, and with an empty store it
\* returns isValid=false, expiresAt=null, cachedAt=null.
C26_GetTokenInfoReadOnly ==
    [][\A p \in Procs :
          (procs[p].pc = "idle" /\ procs'[p].kind = "getTokenInfo") =>
              /\ UNCHANGED <<config, cachedToken, refreshPromise, exchanges>>
              /\ procs'[p].outcome = "returned"
              /\ cachedToken = NULL =>
                    procs'[p].info
                        = [isValid |-> FALSE, expiresAt |-> NULL, cachedAt |-> NULL]
      ]_vars

\* getTokenInfo() has reported an entry that is cached but no longer valid,
\* and the entry is still in the store.
C26_Witness ==
    \E p \in Procs :
        /\ procs[p].kind = "getTokenInfo"
        /\ cachedToken # NULL
        /\ ~procs[p].info.isValid
        /\ procs[p].info.expiresAt = cachedToken.expiresAt

\* C31: the cache-expiry of the entry in the store is at most the expiry of
\* the credential it wraps.
C31_CacheExpiryBound ==
    cachedToken # NULL => cachedToken.expiresAt <= cachedToken.token.expires_at

Max(a, b) == IF a >= b THEN a ELSE b

\* The hint of a RateLimitError in ms: none for a header that is zero or not
\* a number.
HintMs(err) == IF err.retryAfter = NaN THEN 0 ELSE err.retryAfter

SaysInvalidCredential(msg) ==
    msg \in {"Invalid credentials", "Credential is INVALID",
             "client not found: invalid credentials"}
SaysNotFound(msg) == msg \in {"Function Not Found", "client not found: invalid credentials"}

\* The error exchange x was rejected with has this class and code.
RejectedWith(x, cls, code) ==
    x.state = "rejected" /\ x.error.cls = cls /\ x.error.code = code

C34_ClearTokenFrame ==
    /\ [][(procs' = procs /\ exchanges' = exchanges) =>
            /\ cachedToken' = NULL
            /\ refreshPromise' = refreshPromise
            /\ config' = config
            /\ now' = now]_vars
    /\ [][\A p \in Procs :
            (Calls(p) /\ cachedToken = NULL /\ refreshPromise # 0) =>
                /\ exchanges' = exchanges
                /\ refreshPromise' = refreshPromise
                /\ procs'[p].pc = "awaitRefresh"
                /\ procs'[p].ex = refreshPromise]_vars
    /\ [][\A p \in Procs :
            (CallsUnforced(p) /\ cachedToken = NULL /\ refreshPromise = 0) =>
                /\ Len(exchanges') = Len(exchanges) + 1
                /\ refreshPromise' = Len(exchanges')
                /\ procs'[p].pc = "awaitOwn"]_vars

\* The credential of the first exchange was cleared by clearToken (no
\* business request was answered 401) around the start of a second exchange,
\* and a getToken call has joined that exchange while the store was empty.
C34_Witness ==
    /\ Len(exchanges) = 2
    /\ exchanges[1].state = "fulfilled" /\ OriginatorResumed(1)
    /\ Pending(2) /\ refreshPromise = 2
    /\ cachedToken = NULL
    /\ \E p, q \in Procs :
          /\ Request(p) /\ procs[p].attempt = 1
          /\ procs[p].role = "originator" /\ procs[p].ex = 2
          /\ procs[q].kind = "getToken"
          /\ procs[q].role = "attached" /\ procs[q].ex = 2

\* In this step exchange e settles with this state.
Settles(e, state) == Pending(e) /\ exchanges'[e].state = state

\* In this step the business request of caller p is answered or its fetch
\* fails.
Answered(p) == procs[p].pc = "fetch" /\ procs'[p] # procs[p]

\* C35: the store goes from empty to populated only in a step in which an
\* exchange succeeds, and then holds that exchange's credential; it goes from
\* populated to empty only in a step of clearToken, updateConfig or dispose
\* (no caller moves, no exchange settles) or in the classification of a 401
\* response; a failing exchange, getTokenInfo and a business answer other
\* than 401 leave it as it was.
C35_StoreWriters ==
    /\ [][(cachedToken = NULL /\ cachedToken' # NULL) =>
            \E e \in 1..Len(exchanges) :
                Settles(e, "fulfilled") /\ cachedToken'.token = exchanges'[e].token]_vars
    /\ [][(cachedToken # NULL /\ cachedToken' = NULL) =>
            \/ procs' = procs /\ exchanges' = exchanges
            \/ \E p \in Procs : Classifies401(p)]_vars
    /\ [][(\E e \in 1..Len(exchanges) : Settles(e, "rejected"))
            => cachedToken' = cachedToken]_vars
    /\ [][\A p \in Procs :
            (procs'[p] # procs[p] /\ procs'[p].kind = "getTokenInfo")
                => cachedToken' = cachedToken]_vars
    /\ [][\A p \in Procs :
            (Answered(p) /\ procs'[p].resp.status # 401) => cachedToken' = cachedToken]_vars

\* The credential of the first exchange is still in the store after the
\* request's fetch has failed and its second exchange has failed, and
\* getTokenInfo has then reported it as valid.
C35_Witness ==
    /\ Len(exchanges) = 2
    /\ exchanges[1].state = "fulfilled" /\ exchanges[2].state = "rejected"
    /\ cachedToken # NULL /\ cachedToken.token = exchanges[1].token
    /\ \E p, q \in Procs :
          /\ Request(p) /\ procs[p].nBusiness = 1 /\ procs[p].ex = 2 /\ ~Awaiting(p)
          /\ procs[q].kind = "getTokenInfo" /\ procs[q].info.isValid

\* In this step caller p sends a business request.
Sends(p) == procs'[p].nBusiness = procs[p].nBusiness + 1

\* C36: a request has sent at most one business request per getToken call it
\* has made and none for a call it is still waiting on; a business request
\* is sent only in the step in which the getToken call of the attempt
\* resolves (from the cache, or from the exchange awaited once it succeeded)
\* and carries the token that call resolved to; and the step in which the
\* getToken call of an attempt rejects sends none.
C36_TokenBeforeRequest ==
    /\ [](\A p \in Procs : Request(p) =>
            /\ procs[p].nBusiness <= procs[p].nGetToken
            /\ Awaiting(p) => procs[p].nBusiness < procs[p].nGetToken
            /\ procs[p].nGetToken <= procs[p].attempt + 1)
    /\ [][\A p \in Procs : procs'[p].nBusiness # procs[p].nBusiness =>
            /\ Sends(p) /\ procs'[p].kind = "request" /\ procs'[p].pc = "fetch"
            /\ \/ /\ Calls(p) /\ procs'[p].role = "cached"
                  /\ isTokenValid(cachedToken, now)
                  /\ procs'[p].token = cachedToken.token.access_token
               \/ /\ Awaiting(p) /\ exchanges[procs[p].ex].state = "fulfilled"
                  /\ procs'[p].token = exchanges[procs[p].ex].token.access_token
                  /\ procs'[p].attempt = procs[p].attempt]_vars
    /\ [][\A p \in Procs :
            (/\ Request(p) /\ Awaiting(p) /\ procs'[p] # procs[p]
             /\ exchanges[procs[p].ex].state = "rejected") =>
                procs'[p].nBusiness = procs[p].nBusiness]_vars

\* A request sent its business request in attempt 0, could not obtain a
\* credential in attempt 1 and ended there: it has sent one business request
\* in two attempts.
C36_Witness ==
    \E p \in Procs :
        /\ Request(p) /\ procs[p].outcome = "thrown"
        /\ procs[p].attempt = 1 /\ procs[p].nGetToken = 2 /\ procs[p].nBusiness = 1
        /\ procs[p].ex # 0 /\ exchanges[procs[p].ex].state = "rejected"

\* C37: when the issuer answers every exchange, every business request is
\* answered and every timer fires, every call that has been made returns or
\* throws, whatever clearToken, updateConfig and dispose do in between.
C37_EveryCallEnds ==
    \A p \in Procs : (procs[p].pc # "idle") ~> (procs[p].pc = "done")

\* A request has ended after a retry that waited on an exchange, a caller
\* that had joined an exchange has ended too, and no handle is left.
C37_Witness ==
    \E p \in Procs :
        /\ Request(p) /\ procs[p].pc = "done" /\ procs[p].attempt >= 1
        /\ procs[p].ex # 0 /\ refreshPromise = 0
        /\ \E q \in Procs : q # p /\ procs[q].pc = "done" /\ procs[q].role = "attached"

\* The Authorization header the credential of exchange e calls for.
AuthorizationOf(e) ==
    exchanges[e].token.token_type \o " " \o ToString(exchanges[e].token.access_token)

\* C38: every business request in flight carries the Authorization header
\* '<token_type> <token>' of the credential its attempt obtained, whatever
\* type the issuer declared and whatever headers the caller passed.
C38_AuthorizationHeader ==
    \A p \in Procs :
        (Request(p) /\ procs[p].pc = "fetch") =>
            /\ "Authorization" \in DOMAIN procs[p].sent
            /\ procs[p].sent["Authorization"] = AuthorizationOf(procs[p].token)

====
